---- MODULE Spec2Model ----
(***************************************************************************)
(* A model of the vehicle-routing core of the repository:                  *)
(*   - the capacity-aware route evaluators                                 *)
(*       GreedyVRPPlanner._route_cost   (src/algorithms/basic.py)          *)
(*       route_time                     (src/algorithms/grouping_monte_carlo.py) *)
(*   - the greedy cheapest-append planner GreedyVRPPlanner.build_plan      *)
(*   - the Monte Carlo grouping planner MonteCarloGroupingPlanner.build_plan *)
(*                                                                         *)
(* Travel times are floats in the program; the model uses naturals.        *)
(* float("inf") is the value PosInf, larger than every finite sum, and the *)
(* integer sentinel INF = 10**18 of grouping_monte_carlo.py is scaled down *)
(* to a number that is still larger than every sum of reachable legs, so   *)
(* that INF + x, 2 * INF and INF stay three different numbers as they are  *)
(* in the program.                                                         *)
(***************************************************************************)
EXTENDS Integers, Sequences, FiniteSets, TLC

\* ------------------------------------------------------------------ bounds

\* the longest request list handed to a planner
MaxRequests == 2

\* the largest fleet handed to a planner
MaxVehicles == 2

\* the largest iteration budget of the Monte Carlo planner
MaxIterations == 2

\* the longest stop list handed to an evaluator on its own
MaxStops == 3

\* --------------------------------------------------------- program constants

\* INF = 10**18, scaled (see the header)
INF == 1000000

\* float("inf")
PosInf == 2000000000

\* ------------------------------------------------------------------- graphs

Nodes == {"D", "A", "B", "C"}

\* road(a, b, speed_limit, bidirectional) of build_campus_graph; t is the
\* traversal time length / speed_limit of the edge
Road(a, b, t, bi) == [a |-> a, b |-> b, t |-> t, bi |-> bi]

\* all four nodes connected both ways; D-B and D-C take the same time
GraphFull ==
    { Road("D", "A", 1, TRUE), Road("D", "B", 2, TRUE), Road("D", "C", 2, TRUE),
      Road("A", "B", 1, TRUE), Road("B", "C", 1, TRUE), Road("A", "C", 3, TRUE) }

\* a line D - A - B - C
GraphLine ==
    { Road("D", "A", 1, TRUE), Road("A", "B", 1, TRUE), Road("B", "C", 2, TRUE) }

\* C is cut off from the rest
GraphIsland ==
    { Road("D", "A", 1, TRUE), Road("A", "B", 2, TRUE), Road("D", "B", 2, TRUE) }

\* a one-way ring D -> A -> B -> D, C on a two-way spur
GraphRing ==
    { Road("D", "A", 1, FALSE), Road("A", "B", 1, FALSE), Road("B", "D", 1, FALSE),
      Road("D", "C", 1, TRUE) }

\* a one-way dead end D -> A; B and C two-way
GraphDeadEnd ==
    { Road("D", "A", 1, FALSE), Road("D", "B", 1, TRUE), Road("B", "C", 1, TRUE) }

Graphs == {GraphFull, GraphLine, GraphIsland, GraphRing, GraphDeadEnd}

\* the edges leaving node a: (neighbour, time) pairs
OutEdges(g, a) ==
    { <<e.b, e.t>> : e \in {x \in g : x.a = a} }
        \cup { <<e.a, e.t>> : e \in {x \in g : x.b = a /\ x.bi} }

SetMin(S) == CHOOSE x \in S : \A y \in S : x <= y

\* the least travel time from cur to dst over simple paths avoiding `visited`,
\* -1 when there is none
RECURSIVE PathTime(_, _, _, _)
PathTime(g, cur, dst, visited) ==
    IF cur = dst THEN 0
    ELSE LET opts == { o[2] + PathTime(g, o[1], dst, visited \cup {o[1]}) :
                        o \in { x \in OutEdges(g, cur) :
                                  /\ x[1] \notin visited
                                  /\ PathTime(g, x[1], dst, visited \cup {x[1]}) >= 0 } }
         IN IF opts = {} THEN -1 ELSE SetMin(opts)

\* every pair's least travel time in every graph of the family
TravelTable ==
    [g \in Graphs |-> [a \in Nodes |-> [b \in Nodes |-> PathTime(g, a, b, {a})]]]

\* astar_shortest_path(graph, src, dst): (path, cost); path is None when dst
\* cannot be reached from src
astar_shortest_path(g, src, dst) ==
    LET t == TravelTable[g][src][dst]
    IN IF t < 0 THEN [path |-> FALSE, travel |-> 0]
       ELSE [path |-> TRUE, travel |-> t]

\* ---------------------------------------------------------------- data model

Vehicle(id, start, cap) == [id |-> id, start_node |-> start, capacity |-> cap]

DeliveryRequest(id, node, demand) == [id |-> id, node |-> node, demand |-> demand]

\* the vehicle lists of length 0..n with start nodes in S and capacities in C;
\* a vehicle's id is its place in the list
VehicleLists(n, S, C) ==
    UNION { { [i \in 1..k |-> Vehicle(i, f[i][1], f[i][2])] : f \in [1..k -> S \X C] } :
            k \in 0..n }

\* the request lists of length 0..n with nodes in S and demands in D; a
\* request's id is its place in the list
RequestLists(n, S, D) ==
    UNION { { [i \in 1..k |-> DeliveryRequest(i, f[i][1], f[i][2])] :
                f \in [1..k -> S \X D] } : k \in 0..n }

Range(s) == { s[i] : i \in 1..Len(s) }

\* ------------------------------------------------------------ the evaluators

\* the walk of an evaluator over a stop list: where the vehicle is, the time
\* so far, the remaining capacity; and what the walk did: the legs travelled,
\* the shortest-path calls made, the stops a capacity reset came before, the
\* remaining capacity after each stop, and whether it returned its infinite
\* cost before the end
Walk0(cur, cap) ==
    [cur |-> cur, t |-> 0, cap_left |-> cap, legs |-> <<>>, calls |-> 0,
     resets |-> {}, caps |-> <<>>, inf |-> FALSE]

\* path is None: return float("inf"); else t += travel, cur = to
OracleLegTaken(w, to, r) ==
    IF ~r.path
    THEN [w EXCEPT !.inf = TRUE, !.calls = @ + 1]
    ELSE [w EXCEPT !.t = @ + r.travel, !.cur = to,
                   !.legs = Append(@, <<w.cur, to>>), !.calls = @ + 1]

\* one leg of _route_cost: astar_shortest_path(graph, cur, to)
OracleLeg(g, w, to) ==
    IF w.inf THEN w ELSE OracleLegTaken(w, to, astar_shortest_path(g, w.cur, to))

\* cap_left = cap, line 59
ResetCapLeft(w, cap, i) ==
    IF w.inf THEN w ELSE [w EXCEPT !.cap_left = cap, !.resets = @ \cup {i}]

\* lines 52-59 of _route_cost: back to the depot when the request does not fit
RouteCostReset(g, w, cap, depot, demand, i) ==
    IF w.cap_left < demand
    THEN ResetCapLeft(IF w.cur # depot THEN OracleLeg(g, w, depot) ELSE w, cap, i)
    ELSE w

\* cap_left -= demand
TakeDemand(w, demand) ==
    IF w.inf THEN w
    ELSE [w EXCEPT !.cap_left = @ - demand, !.caps = Append(@, w.cap_left - demand)]

\* the body of the for loop of _route_cost for one stop, lines 47-67
RouteCostStop(g, w, cap, depot, req, i) ==
    IF req.demand <= 0 THEN [w EXCEPT !.inf = TRUE]
    ELSE TakeDemand(OracleLeg(g, RouteCostReset(g, w, cap, depot, req.demand, i),
                              req.node),
                    req.demand)

\* the for loop of _route_cost from stop i on
RECURSIVE RouteCostLoop(_, _, _, _, _, _)
RouteCostLoop(g, cap, stops, depot, i, w) ==
    IF i > Len(stops) \/ w.inf THEN w
    ELSE RouteCostLoop(g, cap, stops, depot, i + 1,
                       RouteCostStop(g, w, cap, depot, stops[i], i))

\* lines 70-76 of _route_cost: the return to the depot
RouteCostReturn(g, w, depot, return_to_depot) ==
    IF return_to_depot /\ w.cur # depot THEN OracleLeg(g, w, depot) ELSE w

\* GreedyVRPPlanner._route_cost, as the walk it makes
RouteCostWalk(g, vehicle, stops, depot, return_to_depot) ==
    IF vehicle.capacity <= 0
    THEN [Walk0(vehicle.start_node, vehicle.capacity) EXCEPT !.inf = TRUE]
    ELSE RouteCostReturn(g,
            RouteCostLoop(g, vehicle.capacity, stops, depot, 1,
                          Walk0(vehicle.start_node, vehicle.capacity)),
            depot, return_to_depot)

\* the cost _route_cost returns at the end of a walk
WalkCost(w) == IF w.inf THEN PosInf ELSE w.t

\* GreedyVRPPlanner._route_cost: the cost it returns
route_cost(g, vehicle, stops, depot, return_to_depot) ==
    WalkCost(RouteCostWalk(g, vehicle, stops, depot, return_to_depot))

\* path is None: return INF
TimeOrINF(r) == IF ~r.path THEN INF ELSE r.travel

\* _compute_time(graph, src, dst)
compute_time(g, src, dst) ==
    IF src = dst THEN 0 ELSE TimeOrINF(astar_shortest_path(g, src, dst))

\* nodes of precompute_distances: [depot] + [r.node for r in requests]
CacheNodes(depot, reqs) == <<depot>> \o [i \in 1..Len(reqs) |-> reqs[i].node]

\* dist[(a, b)] = t; dist[(b, a)] = t
CacheSet(d, a, b, t) ==
    [p \in DOMAIN d \cup {<<a, b>>, <<b, a>>} |->
        IF p \in {<<a, b>>, <<b, a>>} THEN t ELSE d[p]]

\* the nested loops of precompute_distances from the k-th (a, b) pair on, in
\* the order the loops visit them; acc.dist maps the pairs set so far,
\* acc.calls counts the shortest-path calls
RECURSIVE PrecomputeLoop(_, _, _, _)
PrecomputeLoop(g, nodes, k, acc) ==
    IF k > Len(nodes) * Len(nodes) THEN acc
    ELSE PrecomputeLoop(g, nodes, k + 1,
            IF <<nodes[((k - 1) \div Len(nodes)) + 1], nodes[((k - 1) % Len(nodes)) + 1]>>
                  \in DOMAIN acc.dist
            THEN acc
            ELSE [dist |-> CacheSet(acc.dist,
                              nodes[((k - 1) \div Len(nodes)) + 1],
                              nodes[((k - 1) % Len(nodes)) + 1],
                              compute_time(g, nodes[((k - 1) \div Len(nodes)) + 1],
                                           nodes[((k - 1) % Len(nodes)) + 1])),
                  calls |-> IF nodes[((k - 1) \div Len(nodes)) + 1]
                                 = nodes[((k - 1) % Len(nodes)) + 1]
                            THEN acc.calls ELSE acc.calls + 1])

\* precompute_distances(graph, depot, requests)
precompute_distances(g, depot, reqs) ==
    PrecomputeLoop(g, CacheNodes(depot, reqs), 1, [dist |-> <<>>, calls |-> 0]).dist

\* the shortest-path calls precompute_distances makes
PrecomputeCalls(g, depot, reqs) ==
    PrecomputeLoop(g, CacheNodes(depot, reqs), 1, [dist |-> <<>>, calls |-> 0]).calls

\* total += x in floats. The spacing of floats at 10**18 is 128 and travel
\* times are far smaller, so a sum that holds INF keeps only its multiple of
\* INF: 1e18 + 5.0 == 1e18, while 1e18 + 1e18 == 2e18.
FloatAdd(total, x) ==
    IF total + x >= INF THEN ((total + x) \div INF) * INF ELSE total + x

\* one leg of route_time: total += dist[(cur, to)]
CacheLeg(dist, w, to) ==
    [w EXCEPT !.t = FloatAdd(@, dist[<<w.cur, to>>]), !.cur = to,
              !.legs = Append(@, <<w.cur, to>>)]

\* a reset that also comes when the request fits exactly
RouteTimeReset_Leq(dist, w, cap, depot, demand, i) ==
    IF w.cap_left <= demand
    THEN ResetCapLeft(IF w.cur # depot THEN CacheLeg(dist, w, depot) ELSE w, cap, i)
    ELSE w

\* lines 70-74 of route_time: back to the depot when the request does not fit
RouteTimeReset(dist, w, cap, depot, demand, i) ==
    IF w.cap_left < demand
    THEN ResetCapLeft(IF w.cur # depot THEN CacheLeg(dist, w, depot) ELSE w, cap, i)
    ELSE w

\* a loop body that gives up on a request larger than the vehicle
RouteTimeStop_Oversize(dist, w, cap, depot, req, i) ==
    IF req.demand <= 0 \/ req.demand > cap THEN [w EXCEPT !.inf = TRUE]
    ELSE TakeDemand(CacheLeg(dist, RouteTimeReset(dist, w, cap, depot, req.demand, i),
                             req.node),
                    req.demand)

\* the body of the for loop of route_time for one stop, lines 65-79
RouteTimeStop(dist, w, cap, depot, req, i) ==
    IF req.demand <= 0 THEN [w EXCEPT !.inf = TRUE]
    ELSE TakeDemand(CacheLeg(dist, RouteTimeReset(dist, w, cap, depot, req.demand, i),
                             req.node),
                    req.demand)

\* the for loop of route_time from stop i on
RECURSIVE RouteTimeLoop(_, _, _, _, _, _)
RouteTimeLoop(dist, cap, stops, depot, i, w) ==
    IF i > Len(stops) \/ w.inf THEN w
    ELSE RouteTimeLoop(dist, cap, stops, depot, i + 1,
                       RouteTimeStop(dist, w, cap, depot, stops[i], i))

\* lines 82-83 of route_time: the return to the depot
RouteTimeReturn(dist, w, depot) ==
    IF ~w.inf /\ w.cur # depot THEN CacheLeg(dist, w, depot) ELSE w

\* route_time, as the walk it makes (inf: it returned INF without walking on)
RouteTimeWalk(depot, stops, dist, vehicle_capacity) ==
    IF stops = <<>> THEN Walk0(depot, vehicle_capacity)
    ELSE IF vehicle_capacity <= 0
    THEN [Walk0(depot, vehicle_capacity) EXCEPT !.inf = TRUE]
    ELSE RouteTimeReturn(dist,
            RouteTimeLoop(dist, vehicle_capacity, stops, depot, 1,
                          Walk0(depot, vehicle_capacity)),
            depot)

\* the time route_time returns at the end of a walk
WalkTime(w) == IF w.inf THEN INF ELSE w.t

\* route_time(depot, stops, dist, vehicle_capacity): the time it returns
route_time(depot, stops, dist, vehicle_capacity) ==
    WalkTime(RouteTimeWalk(depot, stops, dist, vehicle_capacity))

\* ------------------------------------------------------------------- state

VARIABLES
    planner,        \* which entry point runs: "greedy", "montecarlo" or "eval"
    graph,          \* the CityGraph handed in
    depot,          \* the depot node
    vehicles,       \* the vehicle list
    requests,       \* the request list (the stop list, for an evaluator)
    iterations,     \* MonteCarloGroupingPlanner.iterations
    pc,             \* where the call is
    remaining,      \* greedy: the requests not assigned yet
    routes,         \* the routes of the plan, by vehicle id: each a stop list
    total_time,     \* greedy: PlanCost.total_time
    steps,          \* greedy: iterations of the while loop done
    calls,          \* shortest-path calls the planner has made
    dist,           \* Monte Carlo: the distance cache
    current_state,  \* Monte Carlo: vehicle id -> request list
    current_cost,
    best_state,
    best_cost,
    candidate,
    cand_cost,
    it,             \* Monte Carlo: iterations of the for loop done
    makespan,       \* GroupingResult.makespan_estimate
    rc,             \* eval: <<the walk of _route_cost, return_to_depot>> once called
    rt              \* eval: <<the walk of route_time>> once it was called

inputs == <<planner, graph, depot, vehicles, requests, iterations>>

greedy_vars == <<remaining, total_time, steps>>

mc_vars == <<dist, current_state, current_cost, best_state, best_cost,
             candidate, cand_cost, it, makespan>>

eval_vars == <<rc, rt>>

vars == <<inputs, pc, routes, calls, greedy_vars, mc_vars, eval_vars>>

\* the state of a call that has not started
Fresh ==
    /\ pc = "start"
    /\ remaining = <<>>
    /\ routes = <<>>
    /\ total_time = 0
    /\ steps = 0
    /\ calls = 0
    /\ dist = <<>>
    /\ current_state = <<>>
    /\ current_cost = 0
    /\ best_state = <<>>
    /\ best_cost = 0
    /\ candidate = <<>>
    /\ cand_cost = 0
    /\ it = 0
    /\ makespan = 0
    /\ rc = <<>>
    /\ rt = <<>>

\* ------------------------------------------------- the evaluators on their own

EvalStarts == {"D", "A"}

EvalCapacities == {0, 5, 10}

EvalStopNodes == {"A", "B", "C"}

EvalDemands == {0, 4, 6}

\* every kind of road network: all connected, a node cut off, one-way roads
EvalGraphs == {GraphFull, GraphIsland, GraphRing, GraphDeadEnd}

InitEval ==
    /\ planner = "eval"
    /\ graph \in EvalGraphs
    /\ depot = "D"
    /\ vehicles \in { <<Vehicle(1, n, c)>> : n \in EvalStarts, c \in EvalCapacities }
    /\ requests \in RequestLists(MaxStops, EvalStopNodes, EvalDemands)
    /\ iterations = 0
    /\ Fresh

\* a call of GreedyVRPPlanner._route_cost on the inputs
EvalRouteCost ==
    /\ planner = "eval"
    /\ rc = <<>>
    /\ \E return_to_depot \in BOOLEAN :
          rc' = << [walk |-> RouteCostWalk(graph, vehicles[1], requests, depot,
                                          return_to_depot),
                    return_to_depot |-> return_to_depot] >>
    /\ UNCHANGED <<inputs, pc, routes, calls, greedy_vars, mc_vars, rt>>

\* a call of route_time on the inputs, over the cache precompute_distances builds
EvalRouteTime ==
    /\ planner = "eval"
    /\ rt = <<>>
    /\ rt' = << RouteTimeWalk(depot, requests,
                              precompute_distances(graph, depot, requests),
                              vehicles[1].capacity) >>
    /\ UNCHANGED <<inputs, pc, routes, calls, greedy_vars, mc_vars, rc>>

NextEval == EvalRouteCost \/ EvalRouteTime

SpecEval == InitEval /\ [][NextEval]_vars

\* --------------------------------------------------------- the greedy planner

\* total_time += cost in floats: inf absorbs every sum
InfAdd(a, b) == IF a = PosInf \/ b = PosInf THEN PosInf ELSE a + b

\* a precondition that looks at the first request only
InfeasibleRequest_FirstOnly(vs, reqs) ==
    reqs # <<>> /\ \A k \in 1..Len(vs) : vs[k].capacity < reqs[1].demand

\* lines 87-93 of build_plan: some request fits no vehicle
InfeasibleRequest(vs, reqs) ==
    \E i \in 1..Len(reqs) : \A k \in 1..Len(vs) : vs[k].capacity < reqs[i].demand

\* a remove that drops the head of the list, whatever was chosen
RemoveFirst_Head(list, req) == Tail(list)

\* remaining.remove(chosen_req): the list without its first element equal to req
RemoveFirst(list, req) ==
    LET at == SetMin({ i \in 1..Len(list) : list[i] = req })
    IN [i \in 1..(Len(list) - 1) |-> IF i < at THEN list[i] ELSE list[i + 1]]

\* a comparison that lets a later pair of equal cost replace the choice
Consider_LastTie(acc, v, req, w) ==
    [best |-> IF acc.best = <<>> \/ WalkCost(w) <= acc.best[1].cost
              THEN << [vid |-> v.id, req |-> req, cost |-> WalkCost(w)] >>
              ELSE acc.best,
     calls |-> acc.calls + w.calls]

\* lines 112-113: cost < best_choice[2] replaces the choice; acc.best is <<>>
\* for None or <<(vid, req, cost)>>, acc.calls counts the shortest-path calls
Consider(acc, v, req, w) ==
    [best |-> IF acc.best = <<>> \/ WalkCost(w) < acc.best[1].cost
              THEN << [vid |-> v.id, req |-> req, cost |-> WalkCost(w)] >>
              ELSE acc.best,
     calls |-> acc.calls + w.calls]

\* a loop body that tries every vehicle, whatever its capacity
ConsiderPair_NoCheck(g, dep, rts, acc, v, req) ==
    Consider(acc, v, req, RouteCostWalk(g, v, Append(rts[v.id], req), dep, TRUE))

\* lines 105-113 for one (request, vehicle) pair
ConsiderPair(g, dep, rts, acc, v, req) ==
    IF v.capacity < req.demand THEN acc
    ELSE Consider(acc, v, req, RouteCostWalk(g, v, Append(rts[v.id], req), dep, TRUE))

\* lines 103-113 of build_plan from the k-th (request, vehicle) pair on, in the
\* order of the two for loops
RECURSIVE BestChoiceLoop(_, _, _, _, _, _, _)
BestChoiceLoop(g, dep, vs, rem, rts, k, acc) ==
    IF k > Len(rem) * Len(vs) THEN acc
    ELSE BestChoiceLoop(g, dep, vs, rem, rts, k + 1,
            ConsiderPair(g, dep, rts, acc, vs[((k - 1) % Len(vs)) + 1],
                         rem[((k - 1) \div Len(vs)) + 1]))

\* the choice of one iteration of the while loop
BestChoice(g, dep, vs, rem, rts) ==
    BestChoiceLoop(g, dep, vs, rem, rts, 1, [best |-> <<>>, calls |-> 0])

\* total_time += self._route_cost(...)
AddRoute(acc, w) ==
    [total |-> InfAdd(acc.total, WalkCost(w)), calls |-> acc.calls + w.calls]

\* lines 123-125 of build_plan from vehicle k on
RECURSIVE TotalTimeLoop(_, _, _, _, _, _)
TotalTimeLoop(g, dep, vs, rts, k, acc) ==
    IF k > Len(vs) THEN acc
    ELSE TotalTimeLoop(g, dep, vs, rts, k + 1,
            AddRoute(acc, RouteCostWalk(g, vs[k], rts[vs[k].id], dep, TRUE)))

\* routes = {v.id: VehicleRoute(vehicle_id=v.id) for v in vehicles}
EmptyRoutes(vs) == [k \in 1..Len(vs) |-> <<>>]

\* build_plan, lines 86-98: the precondition, then the empty routes
GreedyCheck ==
    /\ planner = "greedy"
    /\ pc = "start"
    /\ IF InfeasibleRequest(vehicles, requests)
       THEN /\ pc' = "failed_infeasible"
            /\ UNCHANGED <<remaining, routes>>
       ELSE /\ pc' = "loop"
            /\ remaining' = requests
            /\ routes' = EmptyRoutes(vehicles)
    /\ UNCHANGED <<inputs, total_time, steps, calls, mc_vars, eval_vars>>

\* a commit that leaves the chosen request in the remaining list
Commit_KeepRemaining(c) ==
    /\ calls' = calls + c.calls
    /\ routes' = [routes EXCEPT ![c.best[1].vid] = Append(@, c.best[1].req)]
    /\ steps' = steps + 1
    /\ UNCHANGED <<remaining, pc>>

\* a commit that puts the chosen request at the head of the route
Commit_AtHead(c) ==
    /\ calls' = calls + c.calls
    /\ routes' = [routes EXCEPT ![c.best[1].vid] = <<c.best[1].req>> \o @]
    /\ remaining' = RemoveFirst(remaining, c.best[1].req)
    /\ steps' = steps + 1
    /\ pc' = "loop"

\* lines 115-121 of build_plan: raise, or commit the choice c
Commit(c) ==
    /\ calls' = calls + c.calls
    /\ IF c.best = <<>>
       THEN /\ pc' = "failed_internal"
            /\ UNCHANGED <<remaining, routes, steps>>
       ELSE /\ routes' = [routes EXCEPT ![c.best[1].vid] = Append(@, c.best[1].req)]
            /\ remaining' = RemoveFirst(remaining, c.best[1].req)
            /\ steps' = steps + 1
            /\ pc' = "loop"

\* build_plan, lines 100-121: one iteration of the while loop
GreedyStep ==
    /\ planner = "greedy"
    /\ pc = "loop"
    /\ remaining # <<>>
    /\ Commit(BestChoice(graph, depot, vehicles, remaining, routes))
    /\ UNCHANGED <<inputs, total_time, mc_vars, eval_vars>>

\* the PlanCost returned
ReturnPlanCost(r) ==
    /\ total_time' = r.total
    /\ calls' = calls + r.calls
    /\ pc' = "done"

\* build_plan, lines 123-130: the total time and the return
GreedyFinish ==
    /\ planner = "greedy"
    /\ pc = "loop"
    /\ remaining = <<>>
    /\ ReturnPlanCost(TotalTimeLoop(graph, depot, vehicles, routes, 1,
                                    [total |-> 0, calls |-> 0]))
    /\ UNCHANGED <<inputs, remaining, routes, steps, mc_vars, eval_vars>>

\* ---------------------------------------------------- the Monte Carlo planner

\* the list without its element at place at: remaining.pop(at)
Pop(list, at) ==
    [i \in 1..(Len(list) - 1) |-> IF i < at THEN list[i] ELSE list[i + 1]]

\* lines 103-110 of build_tsp_route_nearest_neighbor from place i on: the
\* place of the first request strictly nearer than best_t
RECURSIVE NearestLoop(_, _, _, _, _, _)
NearestLoop(cache, cur, rem, i, best_idx, best_t) ==
    IF i > Len(rem) THEN best_idx
    ELSE LET t == cache[<<cur, rem[i].node>>]
         IN IF t < best_t THEN NearestLoop(cache, cur, rem, i + 1, i, t)
            ELSE NearestLoop(cache, cur, rem, i + 1, best_idx, best_t)

\* lines 112-114: chosen = remaining.pop(best_idx); route.append(chosen)
RECURSIVE NearestNeighborLoop(_, _, _, _)
TakeNearest(cache, rem, route, best_idx) ==
    NearestNeighborLoop(cache, rem[best_idx].node, Pop(rem, best_idx),
                        Append(route, rem[best_idx]))

\* the while loop of build_tsp_route_nearest_neighbor
NearestNeighborLoop(cache, cur, rem, route) ==
    IF rem = <<>> THEN route
    ELSE TakeNearest(cache, rem, route, NearestLoop(cache, cur, rem, 1, 1, INF))

\* build_tsp_route_nearest_neighbor(depot, requests, dist)
build_tsp_route_nearest_neighbor(dep, reqs, cache) ==
    NearestNeighborLoop(cache, dep, reqs, <<>>)

\* makespan = max(makespan, cost)
Max(a, b) == IF b > a THEN b ELSE a

\* the for loop of evaluate_state from vehicle k on
RECURSIVE EvaluateLoop(_, _, _, _, _, _)
EvaluateLoop(dep, vs, state, cache, k, mk) ==
    IF k > Len(vs) THEN mk
    ELSE IF vs[k].capacity <= 0 THEN INF
    ELSE IF state[vs[k].id] = <<>> THEN EvaluateLoop(dep, vs, state, cache, k + 1, mk)
    ELSE EvaluateLoop(dep, vs, state, cache, k + 1,
            Max(mk, route_time(dep,
                       build_tsp_route_nearest_neighbor(dep, state[vs[k].id], cache),
                       cache, vs[k].capacity)))

\* evaluate_state(depot, vehicles, state, dist)
evaluate_state(dep, vs, state, cache) == EvaluateLoop(dep, vs, state, cache, 1, 0)

\* the orders rng.shuffle can leave a list in
Shuffles(list) ==
    { [i \in 1..Len(list) |-> list[p[i]]] :
        p \in { q \in [1..Len(list) -> 1..Len(list)] :
                  \A i, j \in 1..Len(list) : i # j => q[i] # q[j] } }

\* the elements of list whose place is in `keep`, in the order of the list
RECURSIVE Picked(_, _, _)
Picked(list, keep, i) ==
    IF i > Len(list) THEN <<>>
    ELSE (IF i \in keep THEN <<list[i]>> ELSE <<>>) \o Picked(list, keep, i + 1)

\* init_state_random: shuffled is the list after rng.shuffle, choice[i] the
\* vehicle rng.choice draws for its i-th request
init_state_random(vs, shuffled, choice) ==
    [k \in 1..Len(vs) |->
        Picked(shuffled, { i \in 1..Len(shuffled) : choice[i] = vs[k].id }, 1)]

\* lines 183-189 of random_move: req goes to to_vid, or back when there is no
\* other vehicle
PutRequest(popped, vs, from_vid, req, to_vid) ==
    IF { k \in 1..Len(vs) : vs[k].id # from_vid } = {}
    THEN [popped EXCEPT ![from_vid] = Append(@, req)]
    ELSE [popped EXCEPT ![to_vid] = Append(@, req)]

\* a move that hands the request on without taking it from its vehicle
random_move_NoPop(state, vs, from_vid, r_idx, to_vid) ==
    IF state[from_vid] = <<>> THEN state
    ELSE PutRequest(state, vs, from_vid, state[from_vid][r_idx], to_vid)

\* random_move: from_vid, r_idx and to_vid are what rng.choice, rng.randrange
\* and rng.choice draw (r_idx and to_vid are drawn only when there is
\* something to draw from)
random_move(state, vs, from_vid, r_idx, to_vid) ==
    IF state[from_vid] = <<>> THEN state
    ELSE PutRequest([state EXCEPT ![from_vid] = Pop(@, r_idx)], vs, from_vid,
                    state[from_vid][r_idx], to_vid)

\* the draws random_move can make in a state
MoveDraws(state, vs) ==
    { d \in (1..Len(vs)) \X (0..MaxRequests) \X (0..Len(vs)) :
        /\ IF state[d[1]] = <<>> THEN d[2] = 0 /\ d[3] = 0
           ELSE /\ d[2] \in 1..Len(state[d[1]])
                /\ IF Len(vs) = 1 THEN d[3] = 0 ELSE d[3] \in (1..Len(vs)) \ {d[1]} }

\* lines 231-235: best_cost = evaluate_state(...); current_cost = best_cost
FirstCost(cost) ==
    /\ best_cost' = cost
    /\ current_cost' = cost

\* lines 230-235: the first state is the best and the current one
FirstState(state) ==
    /\ best_state' = state
    /\ current_state' = state
    /\ FirstCost(evaluate_state(depot, vehicles, state, dist'))
    /\ pc' = "loop"

\* build_plan, lines 218-235: the empty plan, or the cache and the first state
MCStart ==
    /\ planner = "montecarlo"
    /\ pc = "start"
    /\ IF requests = <<>>
       THEN /\ routes' = EmptyRoutes(vehicles)
            /\ makespan' = 0
            /\ pc' = "done"
            /\ UNCHANGED <<calls, dist, current_state, current_cost, best_state, best_cost>>
       ELSE /\ dist' = precompute_distances(graph, depot, requests)
            /\ calls' = calls + PrecomputeCalls(graph, depot, requests)
            /\ UNCHANGED <<routes, makespan>>
            /\ IF vehicles = <<>>
               THEN \* rng.choice(vehicles) raises IndexError
                    /\ pc' = "crashed"
                    /\ UNCHANGED <<current_state, current_cost, best_state, best_cost>>
               ELSE \E shuffled \in Shuffles(requests) :
                    \E choice \in [1..Len(requests) -> 1..Len(vehicles)] :
                      FirstState(init_state_random(vehicles, shuffled, choice))
    /\ UNCHANGED <<inputs, greedy_vars, candidate, cand_cost, it, eval_vars>>

\* a loop that takes every candidate as the current and the best state
Accept_Always(cand, cost) ==
    /\ cand_cost' = cost
    /\ current_state' = cand
    /\ current_cost' = cost
    /\ best_cost' = cost
    /\ best_state' = cand

\* a loop that records the better cost but not the state that has it
Accept_KeepBestState(cand, cost) ==
    /\ cand_cost' = cost
    /\ UNCHANGED best_state
    /\ IF cost <= current_cost
       THEN /\ current_state' = cand
            /\ current_cost' = cost
            /\ best_cost' = IF cost < best_cost THEN cost ELSE best_cost
       ELSE UNCHANGED <<current_state, current_cost, best_cost>>

\* a loop that accepts only a strictly better candidate
Accept_Strict(cand, cost) ==
    /\ cand_cost' = cost
    /\ IF cost < current_cost
       THEN /\ current_state' = cand
            /\ current_cost' = cost
            /\ IF cost < best_cost
               THEN best_cost' = cost /\ best_state' = cand
               ELSE UNCHANGED <<best_cost, best_state>>
       ELSE UNCHANGED <<current_state, current_cost, best_cost, best_state>>

\* lines 242-248: accept a candidate that is not worse, keep a better one
Accept(cand, cost) ==
    /\ cand_cost' = cost
    /\ IF cost <= current_cost
       THEN /\ current_state' = cand
            /\ current_cost' = cost
            /\ IF cost < best_cost
               THEN best_cost' = cost /\ best_state' = cand
               ELSE UNCHANGED <<best_cost, best_state>>
       ELSE UNCHANGED <<current_state, current_cost, best_cost, best_state>>

\* lines 238-248: the candidate and its cost
Try(cand) ==
    /\ candidate' = cand
    /\ Accept(cand, evaluate_state(depot, vehicles, cand, dist))

\* build_plan, lines 237-248: one iteration of the search loop
MCIterate ==
    /\ planner = "montecarlo"
    /\ pc = "loop"
    /\ it < iterations
    /\ \E d \in MoveDraws(current_state, vehicles) :
         Try(random_move(current_state, vehicles, d[1], d[2], d[3]))
    /\ it' = it + 1
    /\ UNCHANGED <<inputs, pc, routes, calls, greedy_vars, dist, makespan, eval_vars>>

\* build_plan, lines 250-261: the plan of the best state
MCFinish ==
    /\ planner = "montecarlo"
    /\ pc = "loop"
    /\ it = iterations
    /\ routes' = [k \in 1..Len(vehicles) |->
                    build_tsp_route_nearest_neighbor(depot, best_state[vehicles[k].id], dist)]
    /\ makespan' = best_cost
    /\ pc' = "done"
    /\ UNCHANGED <<inputs, calls, greedy_vars, dist, current_state, current_cost,
                   best_state, best_cost, candidate, cand_cost, it, eval_vars>>

\* ------------------------------------------------ the objective on its own

\* a call of evaluate_state on a one-vehicle state that lists the inputs in
\* some order, over the cache precompute_distances builds for the inputs;
\* routes keeps the order build_tsp_route_nearest_neighbor derives
EvalEvaluateState ==
    /\ planner = "eval"
    /\ current_state = <<>>
    /\ dist' = precompute_distances(graph, depot, requests)
    /\ \E listed \in Shuffles(requests) :
          /\ current_state' = <<listed>>
          /\ routes' = <<build_tsp_route_nearest_neighbor(depot, listed, dist')>>
          /\ current_cost' = evaluate_state(depot, vehicles, <<listed>>, dist')
    /\ UNCHANGED <<inputs, pc, calls, greedy_vars, best_state, best_cost, candidate,
                   cand_cost, it, makespan, eval_vars>>

\* evaluate_state alone
SpecState == InitEval /\ [][EvalEvaluateState]_vars

\* ------------------------------------------------------------- the planners

PlanStarts == {"D", "A"}

PlanCapacities == {0, 1, 2}

PlanNodes == {"A", "B", "C"}

PlanDemands == {1, 2}

\* the arguments of a build_plan call
PlanInputs ==
    /\ graph \in Graphs
    /\ depot = "D"
    /\ vehicles \in VehicleLists(MaxVehicles, PlanStarts, PlanCapacities)
    /\ requests \in RequestLists(MaxRequests, PlanNodes, PlanDemands)

\* a call of GreedyVRPPlanner.build_plan
InitGreedy ==
    /\ planner = "greedy"
    /\ PlanInputs
    /\ iterations = 0
    /\ Fresh

\* a call of MonteCarloGroupingPlanner(rng, iterations).build_plan
InitMonteCarlo ==
    /\ planner = "montecarlo"
    /\ PlanInputs
    /\ iterations \in 0..MaxIterations
    /\ Fresh

Init == InitGreedy \/ InitMonteCarlo

NextGreedy ==
    \/ GreedyCheck
    \/ GreedyStep
    \/ GreedyFinish

NextMonteCarlo ==
    \/ MCStart
    \/ MCIterate
    \/ MCFinish

Next == NextGreedy \/ NextMonteCarlo

\* either planner
Spec == Init /\ [][Next]_vars

\* the greedy planner alone
SpecGreedy == InitGreedy /\ [][NextGreedy]_vars

\* the Monte Carlo planner alone
SpecMonteCarlo == InitMonteCarlo /\ [][NextMonteCarlo]_vars

\* ------------------------------------------------ claims about the evaluators

\* the load on board after stop i when stops are packed into trips in order
RECURSIVE LoadAfter(_, _, _)
LoadAfter(stops, cap, i) ==
    IF i = 0 THEN 0
    ELSE LET before == LoadAfter(stops, cap, i - 1)
         IN IF before + stops[i].demand > cap THEN stops[i].demand
            ELSE before + stops[i].demand

\* the stops whose demand exceeds the remaining capacity
ExpectedResets(stops, cap) ==
    { i \in 1..Len(stops) : cap - LoadAfter(stops, cap, i - 1) < stops[i].demand }

\* the legs of a route from `start`: before a stop of ExpectedResets a leg to
\* the depot unless the vehicle is there, then the leg to the stop; at the
\* end the return to the depot, if asked for and not there
RECURSIVE ExpectedLegsFrom(_, _, _, _, _, _)
ExpectedLegsFrom(pos, dep, stops, cap, final, i) ==
    IF i > Len(stops)
    THEN IF final /\ pos # dep THEN << <<pos, dep>> >> ELSE <<>>
    ELSE LET reset == i \in ExpectedResets(stops, cap)
             back == IF reset /\ pos # dep THEN << <<pos, dep>> >> ELSE <<>>
             from == IF reset THEN dep ELSE pos
         IN back \o << <<from, stops[i].node>> >>
                 \o ExpectedLegsFrom(stops[i].node, dep, stops, cap, final, i + 1)

ExpectedLegs(start, dep, stops, cap, final) ==
    ExpectedLegsFrom(start, dep, stops, cap, final, 1)

Reachable(g, leg) == astar_shortest_path(g, leg[1], leg[2]).path

RECURSIVE SumOver(_, _, _)
SumOver(legs, time, i) ==
    IF i > Len(legs) THEN 0 ELSE time[legs[i]] + SumOver(legs, time, i + 1)

\* the oracle's travel time of every pair of nodes with a path
OracleTime(g) ==
    [p \in {q \in Nodes \X Nodes : Reachable(g, q)} |->
        astar_shortest_path(g, p[1], p[2]).travel]

ValidLoad(stops, cap) == cap > 0 /\ \A i \in 1..Len(stops) : stops[i].demand > 0

\* what C5 says of one _route_cost call
RouteCostAsSpecified(r) ==
    LET v == vehicles[1]
        legs == ExpectedLegs(v.start_node, depot, requests, v.capacity, r.return_to_depot)
    IN (ValidLoad(requests, v.capacity) /\ \A k \in 1..Len(legs) : Reachable(graph, legs[k]))
       => /\ ~r.walk.inf
          /\ r.walk.resets = ExpectedResets(requests, v.capacity)
          /\ r.walk.legs = legs
          /\ r.walk.t = SumOver(legs, OracleTime(graph), 1)
          /\ r.walk.caps = [i \in 1..Len(requests) |->
                              v.capacity - LoadAfter(requests, v.capacity, i)]

\* what C5 says of one route_time call
RouteTimeAsSpecified(w) ==
    LET cap == vehicles[1].capacity
        legs == ExpectedLegs(depot, depot, requests, cap, TRUE)
        cache == precompute_distances(graph, depot, requests)
    IN (ValidLoad(requests, cap) /\ \A k \in 1..Len(legs) : cache[legs[k]] < INF)
       => /\ ~w.inf
          /\ w.resets = ExpectedResets(requests, cap)
          /\ w.legs = legs
          /\ w.t = SumOver(legs, cache, 1)
          /\ w.caps = [i \in 1..Len(requests) |-> cap - LoadAfter(requests, cap, i)]

\* the scenario of the specification: capacity 10, start at the depot, three
\* stops of demand 4 at three nodes
Scenario444 ==
    /\ planner = "eval"
    /\ graph = GraphFull
    /\ vehicles = <<Vehicle(1, "D", 10)>>
    /\ requests = <<DeliveryRequest(1, "A", 4), DeliveryRequest(2, "B", 4),
                    DeliveryRequest(3, "C", 4)>>

\* D-A 1, A-B 1, back B-D 2, D-C 2, back C-D 2
Scenario444Legs == << <<"D", "A">>, <<"A", "B">>, <<"B", "D">>, <<"D", "C">>, <<"C", "D">> >>

\* C5: both evaluators walk the stops in order from full capacity, go back
\* to the depot (unless there) and reset the remaining capacity exactly
\* before the stops whose demand exceeds it, subtract each stop's demand, and
\* return the sum of the legs travelled; with capacity 10 and demands 4, 4, 4
\* the one return inside the route is between the second and the third stop.
C5_EvaluatorsWalkTrips ==
    /\ rc # <<>> => RouteCostAsSpecified(rc[1])
    /\ rt # <<>> => RouteTimeAsSpecified(rt[1])
    /\ (Scenario444 /\ rc # <<>> /\ rc[1].return_to_depot)
          => rc[1].walk.legs = Scenario444Legs /\ rc[1].walk.t = 8
    /\ (Scenario444 /\ rt # <<>>)
          => rt[1].legs = Scenario444Legs /\ rt[1].t = 8

\* the scenario was evaluated by both, with its return between stops 2 and 3
C5_Witness ==
    /\ Scenario444
    /\ rc # <<>> /\ rc[1].return_to_depot /\ rc[1].walk.resets = {3}
    /\ rt # <<>> /\ rt[1].resets = {3}

\* C6: in both evaluators, when a leg the route requires is unreachable the
\* returned cost is exactly the infinite-cost sentinel, never a sum.
C6_UnreachableIsSentinel ==
    /\ \A k \in 1..Len(rc) :
          LET v == vehicles[1]
              legs == ExpectedLegs(v.start_node, depot, requests, v.capacity,
                                   rc[k].return_to_depot)
          IN (ValidLoad(requests, v.capacity)
                /\ \E j \in 1..Len(legs) : ~Reachable(graph, legs[j]))
             => WalkCost(rc[k].walk) = PosInf
    /\ \A k \in 1..Len(rt) :
          (\E j \in 1..Len(rt[k].legs) : ~Reachable(graph, rt[k].legs[j]))
             => WalkTime(rt[k]) = INF

\* ------------------------------------------------- claims about the planners

\* how often x occurs in a list
Count(list, x) == Cardinality({ i \in 1..Len(list) : list[i] = x })

\* how often x occurs in the lists of an assignment of requests to vehicles
RECURSIVE CountIn(_, _, _)
CountIn(lists, x, k) ==
    IF k > Len(lists) THEN 0 ELSE Count(lists[k], x) + CountIn(lists, x, k + 1)

\* the lists hold, between them, every request as often as the input does,
\* and nothing else
HoldsInput(lists) ==
    /\ Len(lists) = Len(vehicles)
    /\ \A x \in Range(requests) \cup UNION { Range(lists[k]) : k \in 1..Len(lists) } :
          CountIn(lists, x, 1) = Count(requests, x)

\* C1: the routes of the plan GreedyVRPPlanner.build_plan returns hold every
\* input request exactly once between them, and no other request.
C1_GreedyPlanHoldsInput ==
    (planner = "greedy" /\ pc = "done") => HoldsInput(routes)

\* a plan was returned that spreads two requests over two routes
C1_Witness ==
    /\ planner = "greedy" /\ pc = "done"
    /\ Len(requests) = 2 /\ Len(vehicles) = 2
    /\ routes[1] # <<>> /\ routes[2] # <<>>

\* C2: in MonteCarloGroupingPlanner.build_plan the current state, the best
\* state and, once a move was made, the candidate each hold every input
\* request in exactly one vehicle's list exactly once, whether or not the
\* candidate was accepted; so do the routes of the returned plan.
C2_MonteCarloStatesPartition ==
    (planner = "montecarlo" /\ requests # <<>> /\ pc \in {"loop", "done"})
       => /\ HoldsInput(current_state)
          /\ HoldsInput(best_state)
          /\ it > 0 => HoldsInput(candidate)
          /\ pc = "done" => HoldsInput(routes)

\* a plan was returned after a search whose last candidate was rejected
C2_Witness ==
    /\ planner = "montecarlo" /\ pc = "done"
    /\ Len(requests) = 2 /\ Len(vehicles) = 2
    /\ it = 2 /\ cand_cost > current_cost
    /\ candidate # current_state

\* some request's demand is greater than the capacity of every vehicle
SomeRequestFitsNoVehicle ==
    \E i \in 1..Len(requests) :
       \A k \in 1..Len(vehicles) : requests[i].demand > vehicles[k].capacity

\* C3: when some request's demand exceeds every vehicle's capacity, the
\* greedy planner fails with the infeasible-request error before any route
\* exists: no route is created or extended and no plan is returned, wherever
\* in the list the request is.
C3_InfeasibleFailsBeforeRoutes ==
    (planner = "greedy" /\ SomeRequestFitsNoVehicle)
       => /\ pc \in {"start", "failed_infeasible"}
          /\ routes = <<>>
          /\ remaining = <<>>
          /\ steps = 0
          /\ total_time = 0

\* the call failed on a request that is not the first of the list, the first
\* one fitting a vehicle
C3_Witness ==
    /\ planner = "greedy" /\ pc = "failed_infeasible"
    /\ Len(requests) = 2 /\ vehicles # <<>>
    /\ \E k \in 1..Len(vehicles) : requests[1].demand <= vehicles[k].capacity
    /\ \A k \in 1..Len(vehicles) : requests[2].demand > vehicles[k].capacity

\* C4: in the search loop best_cost never increases, whatever move is drawn
\* and whether or not the candidate is accepted.
C4_BestCostNeverIncreases ==
    [][(planner = "montecarlo" /\ pc = "loop") => best_cost' <= best_cost]_vars

\* an iteration has drawn a candidate that is worse than the best state
C4_Witness ==
    /\ planner = "montecarlo" /\ pc = "loop"
    /\ it >= 1 /\ cand_cost > best_cost

\* C7: for an empty request list each planner returns a plan in which every
\* vehicle has an empty route and the reported cost is 0, without any
\* shortest-path call, whatever the vehicles, those that do not start at the
\* depot included.
C7_EmptyInputCostsNothing ==
    (requests = <<>> /\ pc = "done")
       => /\ routes = EmptyRoutes(vehicles)
          /\ calls = 0
          /\ planner = "greedy" => total_time = 0
          /\ planner = "montecarlo" => makespan = 0

\* every pair of a remaining request and a vehicle that can carry it has an
\* infinite route cost
EveryPairInfinite ==
    \A i \in 1..Len(remaining) : \A k \in 1..Len(vehicles) :
       vehicles[k].capacity >= remaining[i].demand
          => route_cost(graph, vehicles[k], Append(routes[vehicles[k].id], remaining[i]),
                        depot, TRUE) = PosInf

\* C8: when, at a step of the greedy loop, every pair of a remaining request
\* and a capacity-eligible vehicle has infinite cost, build_plan raises the
\* fatal planning error at that step and commits nothing.
C8_AllInfiniteRaises ==
    [][(planner = "greedy" /\ pc = "loop" /\ remaining # <<>> /\ EveryPairInfinite)
          => (pc' = "failed_internal" /\ routes' = routes)]_vars

\* the nodes a plan has to travel between
PlanNodesUsed ==
    {depot} \cup { vehicles[k].start_node : k \in 1..Len(vehicles) }
            \cup { requests[i].node : i \in 1..Len(requests) }

\* the condition of C9 on the input
FeasibleInput ==
    /\ \A k \in 1..Len(vehicles) : vehicles[k].capacity > 0
    /\ \A i \in 1..Len(requests) :
          /\ requests[i].demand > 0
          /\ \E k \in 1..Len(vehicles) : requests[i].demand <= vehicles[k].capacity
    /\ \A a, b \in PlanNodesUsed : Reachable(graph, <<a, b>>)

\* C9: with positive capacities, positive demands that each fit some
\* vehicle, and every pair of the nodes used mutually reachable, every cost a
\* planner computes on the way, and the cost it reports, is finite.
C9_FeasibleInputFiniteCost ==
    FeasibleInput
       => /\ (planner = "greedy" /\ pc = "loop")
             => \A k \in 1..Len(vehicles) :
                   route_cost(graph, vehicles[k], routes[vehicles[k].id], depot, TRUE)
                      < PosInf
          /\ (planner = "greedy" /\ pc = "done") => total_time < PosInf
          /\ (planner = "montecarlo" /\ pc = "loop")
             => current_cost < INF /\ best_cost < INF /\ cand_cost < INF
          /\ (planner = "montecarlo" /\ pc = "done") => makespan < INF

\* a Monte Carlo plan was returned, for a feasible input, that gives a
\* vehicle a request larger than its capacity
C9_Witness ==
    /\ FeasibleInput
    /\ planner = "montecarlo" /\ pc = "done" /\ it = 2
    /\ \E k \in 1..Len(vehicles) : \E j \in 1..Len(routes[k]) :
          routes[k][j].demand > vehicles[k].capacity

\* the steps a call has left at most
StepsLeft ==
    IF pc = "start" THEN (IF planner = "greedy" THEN Len(requests) ELSE iterations) + 2
    ELSE IF pc = "loop"
    THEN (IF planner = "greedy" THEN Len(remaining) ELSE iterations - it) + 1
    ELSE 0

\* the lengths of the routes, added up
RECURSIVE Assigned(_, _)
Assigned(lists, k) ==
    IF k > Len(lists) THEN 0 ELSE Len(lists[k]) + Assigned(lists, k + 1)

\* C10: both planning calls terminate. The Monte Carlo planner, given a
\* request and a vehicle, makes exactly `iterations` move-and-evaluate steps
\* and returns; the greedy planner, given an input that passes the
\* precondition, commits exactly one request per iteration of its loop and
\* returns after len(requests) iterations. Every step of a call brings it
\* nearer its end (StepsLeft is a natural number that every step lowers), no
\* call of these ends in an error, and the search loop can always draw a move.
C10_PlannersTerminate ==
    /\ [][StepsLeft' < StepsLeft]_vars
    /\ [](/\ (planner = "greedy" /\ pc \in {"loop", "done"})
                => /\ Assigned(routes, 1) = steps
                   /\ steps + Len(remaining) = Len(requests)
          /\ (planner = "greedy" /\ pc = "done") => steps = Len(requests)
          /\ (planner = "greedy" /\ ~SomeRequestFitsNoVehicle)
                => pc \in {"start", "loop", "done"}
          /\ (planner = "montecarlo" /\ requests # <<>> /\ vehicles # <<>>)
                => /\ pc \in {"start", "loop", "done"}
                   /\ it <= iterations
                   /\ pc = "done" => it = iterations
                   /\ (pc = "loop" /\ it < iterations)
                         => MoveDraws(current_state, vehicles) # {})

\* a Monte Carlo call has returned after two iterations
C10_Witness ==
    planner = "montecarlo" /\ pc = "done" /\ it = 2 /\ iterations = 2 /\ requests # <<>>

\* --------------------------------------------- claims about the local move

\* candidate state c is state s with one request taken from one vehicle's
\* list and added to the list of a different vehicle, nothing else changed
OneRequestMoved(s, c) ==
    \E f, t \in 1..Len(s) :
       /\ f # t
       /\ \E i \in 1..Len(s[f]) :
             /\ Len(c[f]) = Len(s[f]) - 1
             /\ Range(c[f]) = Range(s[f]) \ {s[f][i]}
             /\ Len(c[t]) = Len(s[t]) + 1
             /\ Range(c[t]) = Range(s[t]) \cup {s[f][i]}
       /\ \A k \in (1..Len(s)) \ {f, t} : c[k] = s[k]

\* c gives every vehicle the requests s gives it
SameAssignment(s, c) ==
    /\ Len(c) = Len(s)
    /\ \A k \in 1..Len(s) : Len(c[k]) = Len(s[k]) /\ Range(c[k]) = Range(s[k])

\* C11: every outcome of random_move on a state that holds a request differs
\* from the state by exactly one request, taken from one vehicle and given to
\* a different one, when the fleet has two or more vehicles (the source is
\* always a vehicle that has a request); with one vehicle the outcome assigns
\* the same requests as before.
C11_MoveReassignsOneRequest ==
    [][(planner = "montecarlo" /\ pc = "loop" /\ it' = it + 1)
          => IF Len(vehicles) >= 2
             THEN OneRequestMoved(current_state, candidate')
             ELSE SameAssignment(current_state, candidate')]_vars

\* the state that lists the inputs in the order they were given
InputState == <<requests>>

\* C12: the objective of a state depends only on which requests each vehicle
\* has, not on the order of its list: two states that give the vehicle the
\* same requests in different orders get the same value from evaluate_state,
\* and their nearest-neighbour routes cost the same, equal travel times in
\* the cache included.
C12_ObjectiveIgnoresListOrder ==
    (planner = "eval" /\ current_state # <<>>)
       => /\ current_cost = evaluate_state(depot, vehicles, InputState, dist)
          /\ route_time(depot, routes[1], dist, vehicles[1].capacity)
               = route_time(depot,
                            build_tsp_route_nearest_neighbor(depot, requests, dist),
                            dist, vehicles[1].capacity)

\* the two evaluators return the same cost: the same number, or each its own
\* infinite-cost sentinel
SameCost(cost, time) == IF cost = PosInf THEN time >= INF ELSE time = cost

\* C13: for a vehicle that starts at the depot, route_time over the cache of
\* precompute_distances returns the cost _route_cost returns with
\* return_to_depot = True, on graphs with one-way edges too, and every cache
\* entry dist[(a, b)] is the oracle's travel time from a to b.
C13_CacheAgreesWithOracle ==
    (planner = "eval" /\ vehicles[1].start_node = depot)
       => /\ (rc # <<>> /\ rt # <<>> /\ rc[1].return_to_depot)
                => SameCost(WalkCost(rc[1].walk), WalkTime(rt[1]))
          /\ rt # <<>>
                => \A p \in DOMAIN precompute_distances(graph, depot, requests) :
                      precompute_distances(graph, depot, requests)[p]
                         = compute_time(graph, p[1], p[2])

\* ------------------------------------------- claims about the greedy loop

\* list a is the first Len(a) elements of list b
IsPrefix(a, b) == Len(a) <= Len(b) /\ \A i \in 1..Len(a) : b[i] = a[i]

\* C14: each iteration of the greedy loop appends exactly one remaining
\* request at the tail of exactly one vehicle's stop list and leaves the
\* other stop lists alone; the extended route keeps its stops as a prefix, and
\* no later step moves, reorders or removes a committed request.
C14_GreedyAppendsAtTail ==
    /\ [][(planner = "greedy" /\ pc = "loop" /\ remaining # <<>>)
             => \E k \in 1..Len(vehicles) : \E i \in 1..Len(remaining) :
                   /\ routes' = [routes EXCEPT ![k] = Append(@, remaining[i])]
                   /\ Len(remaining') = Len(remaining) - 1
                   /\ Range(remaining') = Range(remaining) \ {remaining[i]}]_vars
    /\ [][(planner = "greedy" /\ pc \in {"loop", "done"})
             => /\ Len(routes') = Len(routes)
                /\ \A k \in 1..Len(routes) : IsPrefix(routes[k], routes'[k])]_vars

\* the second request was appended to the route that held the first
C14_Witness ==
    /\ planner = "greedy" /\ pc = "loop" /\ steps = 2
    /\ \E k \in 1..Len(vehicles) : Len(routes[k]) = 2

\* the cost of vehicle k's current stops with remaining[i] appended
AppendCost(i, k) ==
    route_cost(graph, vehicles[k], Append(routes[vehicles[k].id], remaining[i]),
               depot, TRUE)

\* vehicle k may take remaining[i]: its capacity is at least the demand
Eligible(i, k) == vehicles[k].capacity >= remaining[i].demand

\* the pair (remaining[i], vehicles[k]) is the cheapest eligible pair, and the
\* first of the cheapest in the order of the loops (requests, then vehicles)
FirstCheapest(i, k) ==
    /\ Eligible(i, k)
    /\ \A j \in 1..Len(remaining) : \A m \in 1..Len(vehicles) :
          Eligible(j, m)
             => /\ AppendCost(j, m) >= AppendCost(i, k)
                /\ (j < i \/ (j = i /\ m < k)) => AppendCost(j, m) > AppendCost(i, k)

\* C15: the pair a greedy step commits has the least full-route cost among
\* the pairs of a remaining request and a vehicle whose capacity is at least
\* its demand, and among the pairs of that cost it is the first in iteration
\* order.
C15_GreedyCommitsFirstCheapest ==
    [][(planner = "greedy" /\ pc = "loop" /\ remaining # <<>>)
          => \E i \in 1..Len(remaining) : \E k \in 1..Len(vehicles) :
                /\ FirstCheapest(i, k)
                /\ routes' = [routes EXCEPT ![vehicles[k].id] = Append(@, remaining[i])]]_vars

\* a step was made where the two vehicles, alike, tied on the least cost and
\* the first got the request
C15_Witness ==
    /\ planner = "greedy" /\ pc = "loop" /\ steps = 1
    /\ Len(vehicles) = 2
    /\ vehicles[1].start_node = vehicles[2].start_node
    /\ vehicles[1].capacity = vehicles[2].capacity
    /\ routes[1] # <<>>
    /\ route_cost(graph, vehicles[1], routes[1], depot, TRUE) < PosInf

\* ------------------------------------------- claims about the search loop

\* the greatest route_time over the vehicles from k on, of the stop orders in
\* rts
RECURSIVE MaxRouteTime(_, _)
MaxRouteTime(rts, k) ==
    IF k > Len(vehicles) THEN 0
    ELSE Max(MaxRouteTime(rts, k + 1),
             route_time(depot, rts[vehicles[k].id], dist, vehicles[k].capacity))

AllCapacitiesPositive == \A k \in 1..Len(vehicles) : vehicles[k].capacity > 0

\* C16: the makespan_estimate the Monte Carlo planner returns is the
\* objective of the plan it returns: evaluate_state of the retained best
\* state, and with positive capacities the greatest route_time of the
\* returned stop orders; the pair (best_state, best_cost) agrees in this way
\* at the start of the loop and after every iteration.
C16_MakespanIsObjectiveOfPlan ==
    (planner = "montecarlo" /\ vehicles # <<>>)
       => /\ (requests # <<>> /\ pc \in {"loop", "done"})
                => best_cost = evaluate_state(depot, vehicles, best_state, dist)
          /\ (requests # <<>> /\ pc = "done")
                => makespan = evaluate_state(depot, vehicles, best_state, dist)
          /\ (pc = "done" /\ AllCapacitiesPositive)
                => makespan = MaxRouteTime(routes, 1)

\* a plan was returned after the search had moved on from the retained best
\* state to another state
C16_Witness ==
    /\ planner = "montecarlo" /\ pc = "done" /\ it = 2
    /\ AllCapacitiesPositive
    /\ Len(vehicles) = 2
    /\ best_state # current_state
    /\ makespan > 0 /\ makespan < INF

\* C17: in the search loop best_cost = current_cost at the start and after
\* every iteration: a candidate becomes the current state exactly when its
\* objective is <= the current one, the best state changes with every change
\* to a strictly better current state, and so the best state never differs
\* in cost from the current state.
C17_BestCostIsCurrentCost ==
    /\ [](  (planner = "montecarlo" /\ requests # <<>> /\ vehicles # <<>>
               /\ pc \in {"loop", "done"})
            => /\ best_cost = current_cost
               /\ evaluate_state(depot, vehicles, best_state, dist)
                    = evaluate_state(depot, vehicles, current_state, dist))
    /\ [][(planner = "montecarlo" /\ pc = "loop" /\ it' = it + 1)
             => /\ IF cand_cost' <= current_cost
                   THEN current_state' = candidate' /\ current_cost' = cand_cost'
                   ELSE current_state' = current_state /\ current_cost' = current_cost
                /\ current_cost' < current_cost => best_state' = candidate']_vars

\* a candidate of the same cost as the current state was accepted, and the
\* best state stayed another one
C17_Witness ==
    /\ planner = "montecarlo" /\ pc = "loop" /\ it >= 1
    /\ candidate = current_state /\ cand_cost = current_cost
    /\ best_state # current_state

\* --------------------------------------------- claims about the capacity

\* the remaining capacity of walk w is within 0..cap after every stop
WithinCapacity(w, cap) == \A j \in 1..Len(w.caps) : w.caps[j] \in 0..cap

\* every request of the list fits a vehicle of capacity cap
AllFit(list, cap) == \A j \in 1..Len(list) : list[j].demand <= cap

\* C18: in every route the greedy planner has in progress, evaluates or
\* returns, each request is on a vehicle whose capacity is at least its
\* demand, and (demands being positive) the remaining capacity _route_cost
\* tracks is within 0..capacity after every stop.
C18_GreedyKeepsWithinCapacity ==
    (planner = "greedy" /\ pc \in {"loop", "done"})
       => \A k \in 1..Len(vehicles) :
             /\ AllFit(routes[vehicles[k].id], vehicles[k].capacity)
             /\ WithinCapacity(RouteCostWalk(graph, vehicles[k], routes[vehicles[k].id],
                                             depot, TRUE),
                               vehicles[k].capacity)
             /\ \A i \in 1..Len(remaining) :
                   vehicles[k].capacity >= remaining[i].demand
                      => WithinCapacity(
                            RouteCostWalk(graph, vehicles[k],
                                          Append(routes[vehicles[k].id], remaining[i]),
                                          depot, TRUE),
                            vehicles[k].capacity)

\* a plan was returned where a vehicle of capacity 2 makes two trips, one
\* with a request of demand 2, next to a vehicle of capacity 1
C18_Witness ==
    /\ planner = "greedy" /\ pc = "done" /\ Len(vehicles) = 2
    /\ \E k, m \in 1..2 :
          /\ k # m
          /\ vehicles[m].capacity = 1 /\ vehicles[k].capacity = 2
          /\ Len(routes[k]) = 2
          /\ \E j \in 1..2 : routes[k][j].demand = 2
          /\ RouteCostWalk(graph, vehicles[k], routes[k], depot, TRUE).resets = {2}
          /\ Len(RouteCostWalk(graph, vehicles[k], routes[k], depot, TRUE).caps) = 2

\* the condition of C19 on the input: positive demands and capacities, every
\* request fitting some vehicle
FitsSomeVehicle ==
    /\ AllCapacitiesPositive
    /\ \A i \in 1..Len(requests) :
          /\ requests[i].demand > 0
          /\ \E k \in 1..Len(vehicles) : requests[i].demand <= vehicles[k].capacity

\* in state st no vehicle has a request larger than its capacity, and the
\* remaining capacity route_time tracks on its derived route never drops
\* below 0
StateWithinCapacity(st) ==
    \A k \in 1..Len(vehicles) :
       /\ AllFit(st[vehicles[k].id], vehicles[k].capacity)
       /\ WithinCapacity(
             RouteTimeWalk(depot,
                           build_tsp_route_nearest_neighbor(depot, st[vehicles[k].id], dist),
                           dist, vehicles[k].capacity),
             vehicles[k].capacity)

\* C19: for the Monte Carlo planner, with positive demands and capacities and
\* every request fitting some vehicle, no state the planner evaluates and no
\* returned plan has a request on a vehicle whose capacity is smaller than
\* its demand: the remaining capacity route_time tracks never drops below 0.
C19_MonteCarloKeepsWithinCapacity ==
    (planner = "montecarlo" /\ FitsSomeVehicle /\ requests # <<>>
       /\ pc \in {"loop", "done"})
       => /\ StateWithinCapacity(current_state)
          /\ StateWithinCapacity(best_state)
          /\ it > 0 => StateWithinCapacity(candidate)
          /\ pc = "done" => StateWithinCapacity(routes)

====
